---------------------------- MODULE Spec2Model ----------------------------
(***************************************************************************)
(* Model of blur_screenshots.py: blur_region(image_path, output_path,      *)
(* regions) and the two calls the script makes.                            *)
(*                                                                         *)
(* An image is a record [w, h, px] with px a function from <<x, y>>        *)
(* (0 <= x < w, 0 <= y < h) to a grey value 0..255.  The file system maps  *)
(* a path to an image, to Absent or to Unreadable.  The Pillow calls the   *)
(* script makes (open, copy, crop, filter, paste, save) are modelled by    *)
(* what they do to such images.                                            *)
(***************************************************************************)
EXTENDS Integers, Sequences, FiniteSets, TLC

VARIABLES
    fs,           \* the working directory: path -> image, Absent or Unreadable
    prog,         \* the calls of __main__, in program order (never changes)
    ci,           \* index in prog of the call being made or made next
    pc,           \* position: "main" | "open" | "loop" | "save" | "print" | "exit" | "crashed"
    image_path,   \* blur_region's parameters
    output_path,
    regions,
    img,          \* the image loaded at line 7
    result,       \* the working copy of line 10
    idx,          \* number of regions the for loop has finished
    fs0,          \* the working directory as the script found it (history)
    stdout,       \* the lines printed so far
    err           \* the uncaught exception that ended the process, or NoErr

vars == <<fs, fs0, prog, ci, pc, image_path, output_path, regions,
          img, result, idx, stdout, err>>

---------------------------------------------------------------------------
(* Bounds of the model *)

\* longest generated region list
MaxRegions == 2

\* width and height of the generated input images
ImgSize == <<2, 2>>

\* grey values a pixel of an input file takes
PixelVals == {0, 240}

---------------------------------------------------------------------------
(* Values *)

\* what a path of the working directory holds when it holds no image
Absent     == [kind |-> "absent"]
Unreadable == [kind |-> "unreadable"]
\* a local variable not yet assigned
None       == [kind |-> "none"]
\* no exception raised
NoErr      == "none"

IsImage(f) == f.kind = "image"

Min(a, b) == IF a < b THEN a ELSE b
Max(a, b) == IF a > b THEN a ELSE b
Clamp(v, lo, hi) == Max(lo, Min(v, hi))

Coords(w, h) == (0 .. (w - 1)) \X (0 .. (h - 1))

MkImage(w, h, f) == [kind |-> "image", w |-> w, h |-> h, px |-> f]

\* a region tuple (x1, y1, x2, y2, blur_radius)
Region(x1, y1, x2, y2, r) == <<x1, y1, x2, y2, r>>

\* the pixels of a w x h image the rectangle of region covers (left and top
\* inclusive, right and bottom exclusive, as Pillow's boxes are)
Covers(region, p) ==
    /\ region[1] <= p[1] /\ p[1] < region[3]
    /\ region[2] <= p[2] /\ p[2] < region[4]

---------------------------------------------------------------------------
(* The Pillow operations blur_region calls *)

\* mutant of Copy: a new blank image of the same size (Image.new for img.copy)
CopyBlank(im) == MkImage(im.w, im.h, [p \in Coords(im.w, im.h) |-> 0])

\* img.copy(): a new image with the same size and pixels (the model's values
\* have no identity: writing to the copy leaves the original as it is)
Copy(im) == im

\* the w x h pixels of im from (x1, y1) on, 0 where they lie outside im
CropBox(im, x1, y1, w, h) ==
    MkImage(w, h,
      [p \in Coords(w, h) |->
          IF /\ 0 <= x1 + p[1] /\ x1 + p[1] < im.w
             /\ 0 <= y1 + p[2] /\ y1 + p[2] < im.h
          THEN im.px[<<x1 + p[1], y1 + p[2]>>]
          ELSE 0])

\* mutant of Crop: the box taken one pixel too wide (right edge inclusive)
CropWider(im, x1, y1, x2, y2) ==
    CropBox(im, x1, y1, Max(x2 - x1, 0) + 1, Max(y2 - y1, 0))

\* img.crop((x1, y1, x2, y2)): a new image of size (x2-x1) x (y2-y1) (a
\* negative extent gives 0) whose pixel (x, y) is the source's
\* (x1+x, y1+y), or 0 where the box reaches outside the source.
Crop(im, x1, y1, x2, y2) ==
    CropBox(im, x1, y1, Max(x2 - x1, 0), Max(y2 - y1, 0))

\* whether the box holds no pixel
EmptyBox(x1, y1, x2, y2) == x2 <= x1 \/ y2 <= y1

\* whether crop raises ValueError for the box (right < left or lower < upper)
CropRejects(x1, y1, x2, y2) == x2 < x1 \/ y2 < y1

RECURSIVE SumLine(_, _, _, _, _)
\* sum of line[Clamp(i)] for i in lo..hi, the line extended by its edge pixels
SumLine(line, n, lo, hi, acc) ==
    IF lo > hi THEN acc
    ELSE SumLine(line, n, lo + 1, hi, acc + line[Clamp(lo, 0, n - 1)])

\* integer division rounding to nearest
RoundDiv(a, d) == (2 * a + d) \div (2 * d)

\* one horizontal pass of a box blur of integer radius rad
BoxBlurH(im, rad) ==
    MkImage(im.w, im.h,
      [p \in Coords(im.w, im.h) |->
          RoundDiv(SumLine([x \in 0 .. (im.w - 1) |-> im.px[<<x, p[2]>>]],
                           im.w, p[1] - rad, p[1] + rad, 0),
                   2 * rad + 1)])

\* one vertical pass
BoxBlurV(im, rad) ==
    MkImage(im.w, im.h,
      [p \in Coords(im.w, im.h) |->
          RoundDiv(SumLine([y \in 0 .. (im.h - 1) |-> im.px[<<p[1], y>>]],
                           im.h, p[2] - rad, p[2] + rad, 0),
                   2 * rad + 1)])

\* region_img.filter(ImageFilter.GaussianBlur(radius)): radius 0 returns a
\* copy; otherwise Pillow approximates the Gaussian by box blurs along x and
\* then along y, each pixel averaged with its neighbours inside the patch
\* (the patch's edge pixels repeated outside it).  The model takes one pass
\* each way with the box radius equal to the blur radius; the result reads
\* the patch and nothing else, as the library's does.
GaussianBlur(im, radius) ==
    IF radius = 0 \/ im.w = 0 \/ im.h = 0 THEN Copy(im)
    ELSE BoxBlurV(BoxBlurH(im, radius), radius)

\* res with the patch written at (x, y), clipped to res's bounds
PasteAt(res, patch, x, y) ==
    MkImage(res.w, res.h,
      [p \in Coords(res.w, res.h) |->
          IF /\ x <= p[1] /\ p[1] < x + patch.w
             /\ y <= p[2] /\ p[2] < y + patch.h
          THEN patch.px[<<p[1] - x, p[2] - y>>]
          ELSE res.px[p]])

\* mutant of Paste: the patch pasted at the image's origin (paste(patch))
PasteAtOrigin(res, patch, x1, y1) == PasteAt(res, patch, 0, 0)

\* mutant of Paste: the patch replaces the working copy
\* (result = blurred_region)
PasteReplaces(res, patch, x1, y1) == patch

\* result.paste(patch, (x1, y1)): result with the patch written at
\* (x1, y1), clipped to result's bounds
Paste(res, patch, x1, y1) == PasteAt(res, patch, x1, y1)

\* mutant of CropSource: the patch cropped from the working copy
\* (result.crop, or result = img without the copy)
CropSourceWorking(original, working) == working

\* line 16: the image one iteration of the for loop crops from
CropSource(original, working) == original

\* lines 13-22: one iteration of the loop for region, on working copy res
\* of loaded image im
BlurOne(im, res, region) ==
    LET x1 == region[1]
        y1 == region[2]
        x2 == region[3]
        y2 == region[4]
        blur_radius == region[5]
        region_img == Crop(CropSource(im, res), x1, y1, x2, y2)
        blurred_region == GaussianBlur(region_img, blur_radius)
    IN  Paste(res, blurred_region, x1, y1)

RECURSIVE BlurAll(_, _, _)
\* lines 12-22: the whole loop over regs
BlurAll(im, res, regs) ==
    IF regs = <<>> THEN res
    ELSE BlurAll(im, BlurOne(im, res, Head(regs)), Tail(regs))

---------------------------------------------------------------------------
(* The script's constants *)

\* lines 40-41 and 57-58: the file names of the two calls
WindowIn   == "SHOTTR--2025-10-31--13-48-31.png"
WindowOut  == "SHOTTR--2025-10-31--13-48-31-blurred.png"
MenubarIn  == "SHOTTR--2025-10-31--13-52-01.png"
MenubarOut == "SHOTTR--2025-10-31--13-52-01-blurred.png"

Paths == {WindowIn, WindowOut, MenubarIn, MenubarOut}

\* lines 30-37: three rectangles stacked in one column with a gap between
\* them, the same left edge, the first the widest, one radius; scaled from
\* the script's 600-pixel coordinates to a 3 x 5 image
window_regions ==
    << Region(1, 0, 3, 1, 1), Region(1, 2, 2, 3, 1), Region(1, 4, 2, 5, 1) >>

\* lines 47-54: the same layout further left
menubar_regions ==
    << Region(0, 0, 3, 1, 1), Region(0, 2, 2, 3, 1), Region(0, 4, 2, 5, 1) >>

\* mutant of SavedPath: the line names the input file
SavedPathInput(inp, out) == inp

\* line 25: the path the confirmation names
SavedPath(inp, out) == out

\* line 25: the confirmation line for a path
Confirmation(path) == <<"Saved blurred image to", path>>

\* lines 39-43 and 56-60: a call of blur_region
Call(inp, out, regs) == [image_path |-> inp, output_path |-> out, regions |-> regs]

---------------------------------------------------------------------------
(* Inputs *)

\* every image of ImgSize with pixels in PixelVals
Images == { MkImage(ImgSize[1], ImgSize[2], f) :
              f \in [Coords(ImgSize[1], ImgSize[2]) -> PixelVals] }

\* a file left at an output path by an earlier run
Stale == MkImage(1, 1, [p \in Coords(1, 1) |-> 7])

\* the rectangles that lie inside an ImgSize image, left < right and top < bottom
ValidRects ==
    { r \in (0 .. ImgSize[1]) \X (0 .. ImgSize[2]) \X (0 .. ImgSize[1]) \X (0 .. ImgSize[2]) :
        r[1] < r[3] /\ r[2] < r[4] }

\* the regions a list is drawn from: every valid rectangle blurred with
\* radius 1, one with radius 0, and rectangles that are empty, inverted or
\* reach outside the image
Regions ==
    { Region(r[1], r[2], r[3], r[4], 1) : r \in ValidRects }
    \cup { Region(0, 0, ImgSize[1], 1, 0),
           Region(1, 0, 1, ImgSize[2], 1),
           Region(0, 1, ImgSize[1], 1, 1),
           Region(ImgSize[1], 0, 1, ImgSize[2], 1),
           Region(0, ImgSize[2], ImgSize[1], 1, 1),
           Region(1, 1, ImgSize[1] + 1, ImgSize[2] + 1, 1),
           Region(0 - 1, 0, 1, ImgSize[2], 1) }

RECURSIVE ListsUpTo(_, _)
\* the sequences over S of length at most n
ListsUpTo(S, n) ==
    IF n = 0 THEN { <<>> }
    ELSE LET shorter == ListsUpTo(S, n - 1)
         IN  shorter \cup { Append(l, e) : l \in shorter, e \in S }

RegionLists == ListsUpTo(Regions, MaxRegions)

---------------------------------------------------------------------------
(* The state machine *)

Locals0 ==
    /\ image_path = "" /\ output_path = "" /\ regions = <<>>
    /\ img = None /\ result = None /\ idx = 0

Start ==
    /\ fs0 = fs
    /\ ci = 1 /\ pc = "main" /\ stdout = <<>> /\ err = NoErr
    /\ Locals0

\* one call of blur_region with any region list, on any input file, the
\* output path empty or holding an older file
Init ==
    /\ \E regs \in RegionLists : prog = << Call(WindowIn, WindowOut, regs) >>
    /\ \E in1 \in Images \cup {Absent, Unreadable}, out1 \in {Absent, Stale} :
          fs = [p \in Paths |->
                  IF p = WindowIn THEN in1 ELSE IF p = WindowOut THEN out1 ELSE Absent]
    /\ Start

\* lines 39-43, 56-60: __main__ calls blur_region with its next arguments
MainCall ==
    /\ pc = "main" /\ ci <= Len(prog)
    /\ image_path' = prog[ci].image_path
    /\ output_path' = prog[ci].output_path
    /\ regions' = prog[ci].regions
    /\ img' = None /\ result' = None /\ idx' = 0
    /\ pc' = "open"
    /\ UNCHANGED <<fs, fs0, prog, ci, stdout, err>>

\* line 60: the script ends after its last call
MainExit ==
    /\ pc = "main" /\ ci > Len(prog)
    /\ pc' = "exit"
    /\ UNCHANGED <<fs, fs0, prog, ci, image_path, output_path, regions, img,
                   result, idx, stdout, err>>

\* mutant of Raise: the exception is recorded and the script carries on
\* (a try/except around the failing statement)
RaiseAndCarryOn(e) == pc' = pc /\ err' = e

\* an exception nothing catches (the script has no try): the process ends
\* where it is
Raise(e) == pc' = "crashed" /\ err' = e

\* mutant of OpenError: open never raises
OpenErrorNever(f) == NoErr

\* the exception Image.open raises for what the path holds
OpenError(f) ==
    IF f = Absent THEN "FileNotFoundError"
    ELSE IF f = Unreadable THEN "PermissionError"
    ELSE NoErr

\* lines 7-10: open the image and copy it
Open ==
    /\ pc = "open"
    /\ IF OpenError(fs[image_path]) # NoErr
       THEN /\ Raise(OpenError(fs[image_path]))
            /\ UNCHANGED <<img, result>>
       ELSE /\ img' = fs[image_path]
            /\ result' = Copy(fs[image_path])
            /\ pc' = "loop" /\ err' = err
    /\ UNCHANGED <<fs, fs0, prog, ci, image_path, output_path, regions, idx, stdout>>

\* mutant of NextRegion: the list walked from its end (reversed(regions))
NextRegionReversed(regs, k) == regs[Len(regs) - k]

\* line 12: the region the loop takes after k iterations
NextRegion(regs, k) == regs[k + 1]

\* lines 12-22: one iteration of the for loop.  crop raises ValueError for
\* an inverted box in the Pillow versions that check it and returns an empty
\* patch in those that do not; the box blur of an empty patch is outside
\* what the library defines, and either returns the empty patch or ends the
\* process.
LoopBody ==
    /\ pc = "loop" /\ idx < Len(regions)
    /\ LET region == NextRegion(regions, idx)
       IN  \/ /\ result' = BlurOne(img, result, region)
              /\ idx' = idx + 1
              /\ UNCHANGED <<pc, err>>
           \/ /\ CropRejects(region[1], region[2], region[3], region[4])
              /\ Raise("ValueError")
              /\ UNCHANGED <<result, idx>>
           \/ /\ EmptyBox(region[1], region[2], region[3], region[4])
              /\ region[5] # 0
              /\ Raise("SIGSEGV")
              /\ UNCHANGED <<result, idx>>
    /\ UNCHANGED <<fs, fs0, prog, ci, image_path, output_path, regions, img, stdout>>

\* line 24: the loop is over; result.save writes the working copy, or
\* raises OSError and leaves the path as it was
Save ==
    /\ pc = "loop" /\ idx = Len(regions)
    /\ \/ /\ fs' = [fs EXCEPT ![output_path] = result]
          /\ pc' = "print" /\ err' = err
       \/ /\ Raise("OSError")
          /\ UNCHANGED fs
    /\ UNCHANGED <<fs0, prog, ci, image_path, output_path, regions, img, result,
                   idx, stdout>>

\* line 25: print the confirmation and return to __main__
PrintSaved ==
    /\ pc = "print"
    /\ stdout' = Append(stdout, Confirmation(SavedPath(image_path, output_path)))
    /\ pc' = "main" /\ ci' = ci + 1
    /\ UNCHANGED <<fs, fs0, prog, image_path, output_path, regions, img, result,
                   idx, err>>

Next == MainCall \/ MainExit \/ Open \/ LoopBody \/ Save \/ PrintSaved

Spec == Init /\ [][Next]_vars

---------------------------------------------------------------------------
(* The script as written: its two calls on the files of the working        *)
(* directory                                                               *)

\* a w x h input file
Gradient(w, h) == MkImage(w, h, [p \in Coords(w, h) |-> 40 * p[1] + 50 * p[2]])
Checker(w, h)  == MkImage(w, h, [p \in Coords(w, h) |-> 240 * ((p[1] + p[2]) % 2)])

\* what an input path of the script may hold: a screenshot the regions fit
\* in, a smaller picture, nothing, or a file that cannot be read
MainFiles == { Gradient(3, 5), Checker(3, 5), Checker(2, 2), Absent, Unreadable }

\* window_regions as written, and with the corners of one rectangle
\* exchanged (an edit of the constants)
WindowRegionLists ==
    { window_regions,
      [window_regions EXCEPT ![2] = Region(2, 2, 1, 3, 1)] }

MainInit ==
    /\ \E regs \in WindowRegionLists :
          prog = << Call(WindowIn, WindowOut, regs),
                    Call(MenubarIn, MenubarOut, menubar_regions) >>
    /\ \E in1 \in MainFiles, in2 \in MainFiles,
          out1 \in {Absent, Stale}, out2 \in {Absent, Stale} :
          fs = [p \in Paths |->
                  IF p = WindowIn THEN in1
                  ELSE IF p = WindowOut THEN out1
                  ELSE IF p = MenubarIn THEN in2
                  ELSE out2]
    /\ Start

MainSpec == MainInit /\ [][Next]_vars

---------------------------------------------------------------------------
(* Properties *)

Range(f) == { f[i] : i \in DOMAIN f }

\* the input file and the output file of the call in progress
InFile  == fs[image_path]
OutFile == fs[output_path]

\* line 24 has run and line 25 has not: blur_region's output is on disk
Saved == pc = "print"

CoveredBySome(regs, p) == \E i \in 1 .. Len(regs) : Covers(regs[i], p)

Overlap(r1, r2) ==
    /\ Max(r1[1], r2[1]) < Min(r1[3], r2[3])
    /\ Max(r1[2], r2[2]) < Min(r1[4], r2[4])

PairwiseDisjoint(regs) ==
    \A i, j \in 1 .. Len(regs) : i < j => ~Overlap(regs[i], regs[j])

\* a region the specification calls valid for an image: inside its bounds,
\* left < right and top < bottom
ValidRegion(region, im) ==
    /\ 0 <= region[1] /\ region[1] < region[3] /\ region[3] <= im.w
    /\ 0 <= region[2] /\ region[2] < region[4] /\ region[4] <= im.h

AllValid(regs, im) == \A i \in 1 .. Len(regs) : ValidRegion(regs[i], im)

\* what blur_region writes for input im and region list regs
Blurred(im, regs) == BlurAll(im, Copy(im), regs)

\* C1: once blur_region has saved, every pixel outside all of the listed
\* rectangles has in the output file the value it has in the input file.
C1_OutsideRegionsUnchanged ==
    Saved =>
        /\ IsImage(OutFile)
        /\ \A p \in Coords(InFile.w, InFile.h) :
              ~CoveredBySome(regions, p) =>
                  /\ p \in DOMAIN OutFile.px
                  /\ OutFile.px[p] = InFile.px[p]

\* C1 witness: saved with valid regions that leave a pixel uncovered and
\* changed another
C1_Witness ==
    /\ Saved /\ Len(regions) >= 1 /\ AllValid(regions, InFile)
    /\ \E p \in Coords(InFile.w, InFile.h) : ~CoveredBySome(regions, p)
    /\ \E q \in Coords(InFile.w, InFile.h) : OutFile.px[q] # InFile.px[q]

\* C2: right after the loop has handled a region, the rectangle of that
\* region holds in the working copy the blur of the patch cropped from the
\* input image as loaded, whatever the regions before it pasted.
C2_PatchFromOriginal ==
    (pc \in {"loop", "print"} /\ idx > 0) =>
        LET region == regions[idx]
            patch  == GaussianBlur(Crop(InFile, region[1], region[2], region[3], region[4]),
                                   region[5])
        IN  \A p \in Coords(result.w, result.h) :
                Covers(region, p) =>
                    result.px[p] = patch.px[<<p[1] - region[1], p[2] - region[2]>>]

\* C2 witness: the second region overlaps the first, and cropping it from
\* the working copy would have pasted something else
C2_Witness ==
    /\ pc = "loop" /\ idx = 2
    /\ Overlap(regions[1], regions[2])
    /\ LET first == BlurOne(img, Copy(img), regions[1])
       IN  /\ first # img
           /\ BlurOne(first, first, regions[2]) # result

\* C3: once blur_region has saved, a pixel that two listed regions cover has
\* the value blur_region gives it when called with the later of the two
\* alone (the later being the last of the list that covers the pixel).
C3_LastRegionWins ==
    Saved =>
        \A i, j \in 1 .. Len(regions) :
            i < j =>
                \A p \in Coords(InFile.w, InFile.h) :
                    ( /\ Covers(regions[i], p) /\ Covers(regions[j], p)
                      /\ \A k \in (j + 1) .. Len(regions) : ~Covers(regions[k], p) )
                    => OutFile.px[p] = Blurred(InFile, << regions[j] >>).px[p]

\* C3 witness: saved with two overlapping regions that alone give a pixel of
\* the overlap different values
C3_Witness ==
    /\ Saved /\ Len(regions) = 2
    /\ \E p \in Coords(InFile.w, InFile.h) :
          /\ Covers(regions[1], p) /\ Covers(regions[2], p)
          /\ Blurred(InFile, << regions[1] >>).px[p]
               # Blurred(InFile, << regions[2] >>).px[p]

\* C4: the working copy has the input image's width and height after any
\* number of regions, and so has the file blur_region saves.
C4_SameDimensions ==
    /\ pc \in {"loop", "print"} =>
          result.w = InFile.w /\ result.h = InFile.h
    /\ Saved => OutFile.w = InFile.w /\ OutFile.h = InFile.h

\* C4 witness: saved after two valid regions smaller than the image
C4_Witness ==
    /\ Saved /\ idx = 2 /\ AllValid(regions, InFile)
    /\ \A i \in 1 .. 2 :
          regions[i][3] - regions[i][1] < InFile.w \/ regions[i][4] - regions[i][2] < InFile.h

\* C5: called with an empty region list, blur_region saves a file that is
\* pixel for pixel the input image.
C5_EmptyListIdentity ==
    (Saved /\ regions = <<>>) => OutFile = InFile

\* C5 witness: an empty list, an input that is not blank, and an older file
\* at the output path overwritten
C5_Witness ==
    /\ Saved /\ regions = <<>>
    /\ fs0[output_path] = Stale
    /\ \E p \in Coords(InFile.w, InFile.h) : InFile.px[p] # 0

\* C6 (as claimed): blur_region never produces an output when a region of
\* the list reaches outside the image or has left >= right or top >= bottom.
C6_InvalidRegionFails ==
    Saved => AllValid(regions, img)

\* C7: when the input path holds no file or an unreadable one, blur_region
\* ends in open's exception before any region is handled, and the output
\* path holds what it held before.
C7_MissingInputFails ==
    (pc \notin {"main", "open"} /\ InFile \in {Absent, Unreadable}) =>
        /\ pc = "crashed"
        /\ err \in {"FileNotFoundError", "PermissionError"}
        /\ idx = 0 /\ result = None
        /\ OutFile = fs0[output_path]
        /\ Confirmation(output_path) \notin Range(stdout)

\* C7 witness: the input is missing, regions were listed and an older file
\* lies at the output path
C7_Witness ==
    /\ pc = "crashed" /\ InFile = Absent
    /\ Len(regions) > 0 /\ fs0[output_path] = Stale

\* C8: a failure ends the run where it happens: the process is over with no
\* step left (no remaining region, no save, no later call), no confirmation
\* was printed for the image, the output path of the image holds what it
\* held before when the failure came before the save, and the output paths
\* of the later images are untouched.
C8_FailureAborts ==
    err # NoErr =>
        /\ pc = "crashed"
        /\ ~ ENABLED Next
        /\ err # "OSError" => OutFile = fs0[output_path]
        /\ Confirmation(output_path) \notin Range(stdout)
        /\ Len(stdout) = ci - 1
        /\ \A j \in (ci + 1) .. Len(prog) :
              fs[prog[j].output_path] = fs0[prog[j].output_path]

\* C8 witness: the first image fails at its second region of three, and a
\* readable second image was waiting
C8_Witness ==
    /\ pc = "crashed" /\ err = "ValueError"
    /\ ci = 1 /\ idx = 1 /\ Len(regions) = 3
    /\ Len(prog) = 2 /\ IsImage(fs[prog[2].image_path])

\* C9: the lines printed are, in order, one confirmation per image saved,
\* each naming that image's output path and each printed with the output on
\* disk; a run that ends without failure made exactly the two calls, window
\* screenshot first and menu-bar screenshot second.
C9_TwoCallsInOrder ==
    /\ Len(stdout) = ci - 1
    /\ \A i \in 1 .. Len(stdout) :
          /\ stdout[i] = Confirmation(prog[i].output_path)
          /\ IsImage(fs[prog[i].image_path])
          /\ fs[prog[i].output_path]
               = Blurred(fs[prog[i].image_path], prog[i].regions)
    /\ pc = "print" => ci <= Len(prog) /\ output_path = prog[ci].output_path
    /\ pc = "exit" =>
          /\ err = NoErr
          /\ stdout = << Confirmation(WindowOut), Confirmation(MenubarOut) >>
          /\ << prog[1].image_path, prog[2].image_path >> = << WindowIn, MenubarIn >>

\* C9 witness: the script as written ran to its end
C9_Witness ==
    /\ pc = "exit" /\ Len(stdout) = 2
    /\ prog[1].regions = window_regions
    /\ fs0[WindowOut] = Stale

\* C10: when the listed regions are pairwise non-overlapping, the file
\* blur_region saves is the one it saves for every permutation of the list.
C10_OrderIndependent ==
    (Saved /\ PairwiseDisjoint(regions)) =>
        \A perm \in Permutations(1 .. Len(regions)) :
            OutFile = Blurred(InFile, [i \in 1 .. Len(regions) |-> regions[perm[i]]])

\* C10 witness: two different non-overlapping valid regions, each of which
\* changes the image
C10_Witness ==
    /\ Saved /\ Len(regions) = 2 /\ regions[1] # regions[2]
    /\ AllValid(regions, InFile) /\ PairwiseDisjoint(regions)
    /\ \A i \in 1 .. 2 : Blurred(InFile, << regions[i] >>) # InFile

===========================================================================
